---- MODULE Spec2Model ----
(***************************************************************************)
(* Claim-settlement core of the CosmWasm faucet: CwClaimManager (queue,    *)
(* pending and history maps, 2 s tick, confirmation watchers, startup      *)
(* recovery) on top of CwWalletManager's wallet state.                     *)
(*                                                                         *)
(* A step of the model is the code one handler runs between two            *)
(* suspension points (await of a chain RPC, of the hook chain, of the      *)
(* database), as Node.js runs it: to completion, never interleaved.        *)
(***************************************************************************)
EXTENDS Integers, Sequences, FiniteSets, TLC

\* ------------------------------------------------------------------ bounds
\* ClaimInfo objects ever constructed (all process lifetimes together).
MaxClaims == 2
\* Process crashes followed by a fresh start.
MaxRestarts == 1

\* Update messages counted per notification client (the count stops there).
MaxUpdates == 2
\* The clock stops there.
MaxTime == 5
\* transactions of the wallet followed in the wallet manager on its own
MaxTxs == 2

Sessions == {"s1", "s2"}
Objs == 1..MaxClaims

\* ----------------------------------------------------------- configuration
\* the values of faucetConfig.cwMaxPending a run is configured with
MaxPendingChoices == {1, 2}
cwMinGasAmount == 1
cwGasAmount == 1
\* dropAmount of every session, and the bounds it is checked against
DropAmount == 1
cwMinAmount == 1
cwMaxAmount == 2
\* what the chain answers to the balance queries of loadWalletState
ChainTokenBalance == 5
ChainNativeBalances == {cwMinGasAmount, cwMinGasAmount + 2}
\* the thresholds of updateFaucetStatus
cwMinBalance == 1
cwLowBalanceThreshold == 3
\* the refill controller; times are in units of ClockUnit seconds, so that the
\* 60 s between two attempts (CwWalletRefill line 38) are RefillTryCooldown
ClockUnit == 30
RefillTryCooldown == 2
cwRefillCooldown == 3
cwRefillEnabled == TRUE
cwRefillAmount == 2
cwRefillThreshold == 3
cwRefillOverflowAmount == 4
\* what the chain answers to the token balance query while the refill
\* controller is followed, and what getUnclaimedBalance returns
ChainTokenBalances == {cwMinBalance, cwLowBalanceThreshold, cwRefillOverflowAmount + 1}
UnclaimedBalances == {0, 1}

VARIABLES
  cwMaxPending,            \* faucetConfig.cwMaxPending
  claims,                  \* ClaimInfo objects, by object identity
  claimTxQueue,            \* sequence of objects
  claimTxDict,             \* session -> object (0: no entry)
  pendingTxQueue,          \* txHash -> object
  historyTxDict,           \* wallet sequence -> object
  historyTimers,           \* armed eviction timers, oldest first: [sequence, claimTx] of the closure
  watchers,                \* objects whose awaitTxConfirmation awaits getTx
  queueProcessing,         \* a processQueue run is suspended in sendTokens
  tickClaim,               \* the object that run is sending (0: none)
  tickWalletState,         \* the WalletState object processQueue captured ...
  tickAliased,             \* ... unless it still is the wallet manager's object
  lastClaimTxIdx,
  lastProcessedClaimTxIdx,
  lastConfirmedClaimTxIdx,
  lastNotificationData,    \* CwClaimManager's field
  hubLastNotificationData, \* CwClaimNotificationClient's static field
  walletState,             \* CwWalletManager.walletState
  chainSeq,                \* the chain's account sequence of the faucet wallet
  db,                      \* session store: session -> stored session
  epoch,                   \* process lifetime
  clientState,             \* the CwClaimNotificationClient of a claim: "none", "active"
                           \* (in activeClients), or the reason it was killed with
  clientUpdates,           \* "update" messages sent on its socket
  activeClients,           \* CwClaimNotificationClient.activeClients, as claims
  faucetStatus,            \* FaucetStatus entry "wallet"
  clock,                   \* new Date().getTime(), in seconds / ClockUnit
  refillPc,                \* where tryRefillWallet is suspended ("idle": no refillPromise)
  isRefilling,
  lastRefillTry,
  lastRefillTime,
  refillWalletState,       \* the WalletState tryRefillWallet read in line 55, until it is used
  refillLog,               \* the attempts made: when, and the executeContract call of each
  createError,             \* the code of the FaucetError the last createSessionClaim
                           \* call of onClaimReward threw ("ok": none)
  cwIsNativeToken,         \* faucetConfig.cwIsNativeToken
  txlist,                  \* what the last getTransactionQueue call returned ...
  txlistArg,               \* ... and its queueOnly argument ("none": no call yet)
  startPc,                 \* where CwWalletManager.startClient is suspended, "retry"
                           \* while its timer of line 78 runs, "done" after it returned
  txCall,                  \* the sendTokens or executeContract call awaiting the chain
  txResult,                \* how the last such call ended ("none": no call yet)
  initialized,             \* CwClaimManager.initialized
  sends                    \* the transfers the chain has accepted for a claim

hubvars == <<clientState, clientUpdates, activeClients>>

queryvars == <<txlist, txlistArg>>

walletvars == <<startPc, txCall, txResult>>

sidevars == <<cwIsNativeToken, queryvars, walletvars, initialized>>

restvars == <<sidevars, sends>>

refillvars == <<refillPc, isRefilling, lastRefillTry, lastRefillTime, refillWalletState, refillLog>>

vars == <<cwMaxPending, claims, claimTxQueue, claimTxDict, pendingTxQueue, historyTxDict,
          historyTimers, watchers, queueProcessing, tickClaim, tickWalletState,
          tickAliased, lastClaimTxIdx, lastProcessedClaimTxIdx,
          lastConfirmedClaimTxIdx, lastNotificationData, hubLastNotificationData,
          walletState, chainSeq, db, epoch, hubvars, faucetStatus, clock, refillvars, createError, restvars>>

\* ------------------------------------------------------------------ values
NoClaim == [session |-> "", claimIdx |-> 0, claimStatus |-> "none",
            txHash |-> 0, txError |-> "", txHeight |-> 0, txFee |-> 0, call |-> "none"]

\* No sendTokens or executeContract call is awaiting the chain.
NoTxCall == [op |-> "none", amount |-> 0]

NotReadyWallet == [ready |-> FALSE, sequence |-> 0, balance |-> 0, nativeBalance |-> 0]

\* FaucetStatus has no entry "wallet" before the first updateFaucetStatus.
NoFaucetStatus == [level |-> "none", message |-> ""]

Terminal == {"confirmed", "failed"}

EmptyMap == [k \in {} |-> 0]

MapDelete(m, k) == [x \in DOMAIN m \ {k} |-> m[x]]

MapPut(m, k, v) == [x \in DOMAIN m \cup {k} |-> IF x = k THEN v ELSE m[x]]

\* FaucetDatabase.updateClaimData(session, claim): the stored claim is replaced
UpdateClaimData(d, c, o) ==
  [d EXCEPT ![c.session].obj = o,
            ![c.session].claimStatus = c.claimStatus,
            ![c.session].txHash = c.txHash]

\* ------------------------------------------------------------------- Init
InitCommon ==
  /\ cwMaxPending \in MaxPendingChoices
  /\ claims = [o \in Objs |-> NoClaim]
  /\ claimTxQueue = <<>>
  /\ claimTxDict = [s \in Sessions |-> 0]
  /\ pendingTxQueue = EmptyMap
  /\ historyTxDict = EmptyMap
  /\ historyTimers = <<>>
  /\ watchers = {}
  /\ queueProcessing = FALSE
  /\ tickClaim = 0
  /\ tickWalletState = NotReadyWallet
  /\ tickAliased = TRUE
  /\ lastClaimTxIdx = 1
  /\ lastProcessedClaimTxIdx = 0
  /\ lastConfirmedClaimTxIdx = 0
  /\ lastNotificationData = "null"
  /\ hubLastNotificationData = <<>>
  /\ walletState = NotReadyWallet
  /\ chainSeq = 0
  /\ db = [s \in Sessions |-> [status |-> "claimable", obj |-> 0,
                               claimStatus |-> "none", txHash |-> 0]]
  /\ epoch = 0
  /\ clientState = [o \in Objs |-> "none"]
  /\ clientUpdates = [o \in Objs |-> 0]
  /\ activeClients = <<>>
  /\ faucetStatus = NoFaucetStatus
  /\ clock = 1
  /\ refillPc = "idle"
  /\ isRefilling = FALSE
  /\ lastRefillTry = 0
  /\ lastRefillTime = 0
  /\ refillWalletState = NotReadyWallet
  /\ refillLog = <<>>
  /\ createError = "ok"
  /\ txlist = <<>>
  /\ txlistArg = "none"
  /\ txCall = NoTxCall
  /\ txResult = "none"
  /\ initialized = TRUE
  /\ sends = [o \in Objs |-> 0]

\* The pipeline of a contract token; the start-up of the wallet manager is
\* not followed: its loads are those of LoadWalletState.
Init ==
  /\ InitCommon
  /\ cwIsNativeToken = FALSE
  /\ startPc = "done"

\* initialize of the wallet manager (lines 22-33) has published the WalletState
\* that is not ready and has called startClient, for either kind of token.
WalletInit ==
  /\ InitCommon
  /\ cwIsNativeToken \in BOOLEAN
  /\ startPc = "wallet"

\* ------------------------------------------------ CwWalletManager (wallet)
\* loadWalletState: this.walletState is REPLACED by a new object.  A running
\* processQueue that still held the manager's object keeps the old one.
PublishedWalletState(ok, balance, native) ==
  IF ok THEN [ready |-> TRUE, sequence |-> chainSeq,
              balance |-> balance, nativeBalance |-> native]
  ELSE NotReadyWallet

LoadedWalletState(ok, native) == PublishedWalletState(ok, ChainTokenBalance, native)

\* updateFaucetStatus with < for <= in its comparisons
updateFaucetStatus_Strict(ws) ==
  IF ~ws.ready
  THEN [level |-> "error", message |-> "Cannot connect to network"]
  ELSE IF ws.balance < cwMinBalance \/ ws.nativeBalance < cwMinGasAmount
  THEN [level |-> "error", message |-> "The faucet is out of funds!"]
  ELSE IF ws.balance < cwLowBalanceThreshold
  THEN [level |-> "warning", message |-> "The faucet is running low on funds!"]
  ELSE [level |-> "info", message |-> ""]

\* updateFaucetStatus (lines 164-193): the entry written for a WalletState.
updateFaucetStatus(ws) ==
  IF ~ws.ready
  THEN [level |-> "error", message |-> "Cannot connect to network"]
  ELSE IF ws.balance <= cwMinBalance \/ ws.nativeBalance <= cwMinGasAmount
  THEN [level |-> "error", message |-> "The faucet is out of funds!"]
  ELSE IF ws.balance <= cwLowBalanceThreshold
  THEN [level |-> "warning", message |-> "The faucet is running low on funds!"]
  ELSE [level |-> "info", message |-> ""]

\* loadWalletState from its last await on (lines 132-161): what it does to
\* the wallet manager and to whoever holds its WalletState object; balance
\* and native are the chain's answers.
PublishWalletState(ok, balance, native) ==
  /\ walletState' = PublishedWalletState(ok, balance, native)
  /\ faucetStatus' = updateFaucetStatus(walletState')
  /\ IF queueProcessing /\ tickAliased
     THEN tickWalletState' = walletState /\ tickAliased' = FALSE
     ELSE UNCHANGED <<tickWalletState, tickAliased>>

\* loadWalletState, start to end (lastWalletRefresh, which only the status
\* page reads, is left out).
LoadWalletStateWith(ok, balance, native) == PublishWalletState(ok, balance, native)

LoadWalletState(ok, native) ==
  /\ LoadWalletStateWith(ok, ChainTokenBalance, native)
  /\ UNCHANGED <<cwMaxPending, claims, claimTxQueue, claimTxDict, pendingTxQueue, historyTxDict,
                 historyTimers, watchers, queueProcessing, tickClaim,
                 lastClaimTxIdx, lastProcessedClaimTxIdx, lastConfirmedClaimTxIdx,
                 lastNotificationData, hubLastNotificationData, chainSeq, db, epoch,
                 hubvars, clock, refillvars, createError, restvars>>

\* The local deltas of a contract token whatever the token is
SentWalletState_GasOnly(ws, amount) ==
  [ws EXCEPT !.sequence = @ + 1,
             !.balance = @ - amount,
             !.nativeBalance = @ - cwGasAmount]

\* The local deltas without the sequence++ of line 304
SentWalletState_SameSequence(ws, amount) ==
  [ws EXCEPT !.balance = @ - amount,
             !.nativeBalance = IF cwIsNativeToken THEN @ - (amount + cwGasAmount)
                               ELSE @ - cwGasAmount]

\* sendTokens, after a successful broadcast: the local deltas, applied in place
\* to the manager's current object.
SentWalletState(ws, amount) ==
  [ws EXCEPT !.sequence = @ + 1,
             !.balance = @ - amount,
             !.nativeBalance = IF cwIsNativeToken THEN @ - (amount + cwGasAmount)
                               ELSE @ - cwGasAmount]

\* ------------------------------------------- CwClaimManager.createSessionClaim
\* The preconditions with the address checked before the amounts
CreateError_AddressFirst(status, dropAmount, addrOk, dictEntry) ==
  IF status # "claimable" THEN "NOT_CLAIMABLE"
  ELSE IF ~addrOk THEN "INVALID_ADDRESS"
  ELSE IF dropAmount < cwMinAmount THEN "AMOUNT_TOO_LOW"
  ELSE IF dropAmount > cwMaxAmount THEN "AMOUNT_TOO_HIGH"
  ELSE IF dictEntry # 0 THEN "RACE_CLAIMING"
  ELSE "ok"

\* The preconditions, in the order of the code; "ok" when none is violated.
CreateError(status, dropAmount, addrOk, dictEntry) ==
  IF status # "claimable" THEN "NOT_CLAIMABLE"
  ELSE IF dropAmount < cwMinAmount THEN "AMOUNT_TOO_LOW"
  ELSE IF dropAmount > cwMaxAmount THEN "AMOUNT_TOO_HIGH"
  ELSE IF ~addrOk THEN "INVALID_ADDRESS"
  ELSE IF dictEntry # 0 THEN "RACE_CLAIMING"
  ELSE "ok"

FreeObjs == {o \in Objs : claims[o].call = "none"}

\* Lines 198-244: the checks, the ClaimInfo with its claimIdx, then the call is
\* suspended in the SessionClaim hook chain.  sessionData is the stored session
\* the API handler has just read.
CreateStart(s) ==
  LET err == CreateError(db[s].status, DropAmount, TRUE, claimTxDict[s]) IN
  IF err # "ok"
  THEN UNCHANGED vars
  ELSE /\ FreeObjs # {}
       /\ LET o == CHOOSE x \in FreeObjs : \A y \in FreeObjs : x <= y IN
          claims' = [claims EXCEPT ![o] =
                       [session |-> s, claimIdx |-> lastClaimTxIdx,
                        claimStatus |-> "queue", txHash |-> 0, txError |-> "",
                           txHeight |-> 0, txFee |-> 0,
                        call |-> "wait"]]
       /\ lastClaimTxIdx' = lastClaimTxIdx + 1
       /\ UNCHANGED <<cwMaxPending, claimTxQueue, claimTxDict, pendingTxQueue, historyTxDict,
                      historyTimers, watchers, queueProcessing, tickClaim,
                      tickWalletState, tickAliased, lastProcessedClaimTxIdx,
                      lastConfirmedClaimTxIdx, lastNotificationData,
                      hubLastNotificationData, walletState, chainSeq, db, epoch,
                      hubvars, faucetStatus, clock, refillvars, createError, restvars>>

\* Lines 254-257 with a store that keeps the session of a call that threw
updateSession_StoresFailed(d, s, o, c, outcome) ==
  IF outcome # "hook"
  THEN [d EXCEPT ![s] = [status |-> "claiming", obj |-> o,
                         claimStatus |-> c.claimStatus, txHash |-> c.txHash]]
  ELSE d

\* Lines 254-257: the session store after the call; the session is written
\* as CLAIMING with its claim only when nothing has thrown up to the end of
\* updateSession.
updateSession(d, s, o, c, outcome) ==
  IF outcome = "ok"
  THEN [d EXCEPT ![s] = [status |-> "claiming", obj |-> o,
                         claimStatus |-> c.claimStatus, txHash |-> c.txHash]]
  ELSE d

\* Lines 239-261: the call resumes from the hook chain and from updateSession.
\* Nothing another handler can see changes between the two awaits (the session
\* is flipped to CLAIMING on the caller's sessionData only), so they are one
\* suspension here.  outcome: "ok", or which of the two threw; a call that
\* throws leaves its ClaimInfo unreferenced.
CreateReturn(o, outcome) ==
  /\ claims[o].call = "wait"
  /\ LET s == claims[o].session IN
     /\ db' = updateSession(db, s, o, claims[o], outcome)
     /\ IF outcome = "ok"
        THEN /\ claimTxQueue' = Append(claimTxQueue, o)
             /\ claimTxDict' = [claimTxDict EXCEPT ![s] = o]
             /\ claims' = [claims EXCEPT ![o].call = "ok"]
        ELSE /\ claims' = [claims EXCEPT ![o] = [NoClaim EXCEPT !.call = "err"]]
             /\ UNCHANGED <<claimTxQueue, claimTxDict>>
  /\ UNCHANGED <<cwMaxPending, pendingTxQueue, historyTxDict, historyTimers, watchers,
                 queueProcessing, tickClaim, tickWalletState, tickAliased,
                 lastClaimTxIdx, lastProcessedClaimTxIdx, lastConfirmedClaimTxIdx,
                 lastNotificationData, hubLastNotificationData, walletState,
                 chainSeq, epoch, hubvars, faucetStatus, clock, refillvars, createError, restvars>>

\* onClaimReward calls createSessionClaim with the sessionData it was given
\* (FaucetWebApi lines 333-373): its status is the stored one, or CLAIMABLE
\* still, when it was read before another call stored CLAIMING; dropAmount and
\* addrOk (targetAddr starts with cwAddressPrefix) are whatever the session
\* holds.  The error code of the call is kept for the caller's answer.
CreateCall(s, status, dropAmount, addrOk) ==
  LET err == CreateError(status, dropAmount, addrOk, claimTxDict[s]) IN
  /\ status \in {db[s].status, "claimable"}
  /\ createError' = err
  /\ IF err # "ok"
     THEN UNCHANGED <<claims, lastClaimTxIdx>>
     ELSE /\ FreeObjs # {}
          /\ LET o == CHOOSE x \in FreeObjs : \A y \in FreeObjs : x <= y IN
             claims' = [claims EXCEPT ![o] =
                          [session |-> s, claimIdx |-> lastClaimTxIdx,
                           claimStatus |-> "queue", txHash |-> 0, txError |-> "",
                           txHeight |-> 0, txFee |-> 0,
                           call |-> "wait"]]
          /\ lastClaimTxIdx' = lastClaimTxIdx + 1
  /\ UNCHANGED <<cwMaxPending, claimTxQueue, claimTxDict, pendingTxQueue, historyTxDict,
                 historyTimers, watchers, queueProcessing, tickClaim,
                 tickWalletState, tickAliased, lastProcessedClaimTxIdx,
                 lastConfirmedClaimTxIdx, lastNotificationData,
                 hubLastNotificationData, walletState, chainSeq, db, epoch,
                 hubvars, faucetStatus, clock, refillvars, restvars>>

\* ------------------------------------------------ CwClaimManager.processQueue
\* updateClaimStatus that forgets the database
updateClaimStatus_NotStored(d, c, o) == d

\* updateClaimStatus: the SessionClaimed hook and the statistics of a CONFIRMED
\* claim are fired and not awaited; the claim is handed to the database.
updateClaimStatus(d, c, o) == UpdateClaimData(d, c, o)

\* The while condition with <= for <: one claim more than cwMaxPending is sent
QueueLoopCondition_OneTooMany(pend, q) ==
  Cardinality(DOMAIN pend) <= cwMaxPending /\ Len(q) > 0

\* The while condition that stops one claim early: the last claim is never sent
QueueLoopCondition_LeavesLast(pend, q) ==
  Cardinality(DOMAIN pend) < cwMaxPending /\ Len(q) > 1

\* The while condition of processQueue (lines 272-275).
QueueLoopCondition(pend, q) ==
  Cardinality(DOMAIN pend) < cwMaxPending /\ Len(q) > 0

\* The break condition (lines 276-281), on the WalletState the run captured.
OutOfGas(ws) == ~ws.ready \/ ws.nativeBalance <= cwMinGasAmount

\* The WalletState object the running processQueue reads.
TickView(cur) == IF tickAliased THEN cur ELSE tickWalletState

\* processQueueTx up to its first await (lines 309-334): "failed" with the error
\* it sets, or "send" when sendTokens has been called.
ProcessQueueTxStart(cur) ==
  IF ~cur.ready THEN "Network RPC is currently unreachable."
  ELSE IF cur.nativeBalance <= cwMinGasAmount THEN "Faucet wallet is out of gas funds."
  ELSE "send"

\* The loop of processQueue from its condition to the next suspension: claims
\* that processQueueTx fails without awaiting are passed in the same run.
\* st = [q, cl, d, lp, cur]: queue, objects, database, lastProcessedClaimTxIdx
\* and the object being sent (0 when the loop is left).
RECURSIVE DrainLoop(_, _, _, _)
DrainLoop(st, pend, view, wallet) ==
  IF QueueLoopCondition(pend, st.q) /\ ~OutOfGas(view)
  THEN LET o == Head(st.q)
           res == ProcessQueueTxStart(wallet)
           popped == [st EXCEPT !.q = Tail(@), !.lp = st.cl[o].claimIdx]
       IN IF res = "send"
          THEN [popped EXCEPT !.cl[o].claimStatus = "processing", !.cur = o]
          ELSE LET c == [st.cl[o] EXCEPT !.claimStatus = "failed", !.txError = res]
               IN DrainLoop([popped EXCEPT !.cl[o] = c,
                                           !.d = updateClaimStatus(@, c, o)],
                            pend, view, wallet)
  ELSE [st EXCEPT !.cur = 0]

\* Lines 288-299: the run broadcasts unless its lastNotificationData holds the
\* same pair.
ShouldBroadcast(lnd, processedIdx, confirmedIdx) ==
  \/ lnd = "null"
  \/ lnd.processedIdx # processedIdx
  \/ lnd.confirmedIdx # confirmedIdx

\* The condition of line 125 of CwClaimNotificationClient.sendClaimNotification
\* for a client created with claimIdx; data = <<processedIdx, confirmedIdx>>.
ClosesOn(data, claimIdx) == data[2] >= claimIdx

\* sendClaimNotification (lines 122-128) on the client of claim o: the update
\* is sent, and the client is killed if line 125 says so.
SentNotification(cs, cu, o, data) ==
  [state |-> IF ClosesOn(data, claims[o].claimIdx) THEN "claim confirmed" ELSE cs[o],
   updates |-> IF cu[o] < MaxUpdates THEN cu[o] + 1 ELSE cu[o]]

\* dispose that splices the last client out of activeClients
RemoveClient_Last(ac, o) == SubSeq(ac, 1, Len(ac) - 1)

\* dispose (lines 82-85): indexOf and splice.
RemoveClient(ac, o) ==
  LET found == {i \in DOMAIN ac : ac[i] = o} IN
  IF found = {} THEN ac
  ELSE LET clientIdx == CHOOSE i \in found : \A j \in found : i <= j
       IN SubSeq(ac, 1, clientIdx - 1) \o SubSeq(ac, clientIdx + 1, Len(ac))

\* The loop of broadcastClaimNotification (lines 21-23) from index i down to
\* the first client; the client at i is sent the update, and is killed
\* (killClient calls dispose, lines 88-96) if line 125 says so.
\* st = [ac, cs, cu]: activeClients, clientState, clientUpdates.
RECURSIVE BroadcastLoop(_, _, _)
BroadcastLoop(st, i, data) ==
  IF i < 1 THEN st
  ELSE LET o == st.ac[i]
           sent == SentNotification(st.cs, st.cu, o, data)
       IN BroadcastLoop([ac |-> IF ClosesOn(data, claims[o].claimIdx)
                                THEN RemoveClient(st.ac, o) ELSE st.ac,
                         cs |-> [st.cs EXCEPT ![o] = sent.state],
                         cu |-> [st.cu EXCEPT ![o] = sent.updates]],
                        i - 1, data)

\* broadcastClaimNotification (lines 18-24).
BroadcastClaimNotification(data) ==
  LET r == BroadcastLoop([ac |-> activeClients, cs |-> clientState, cu |-> clientUpdates],
                         Len(activeClients), data)
  IN /\ hubLastNotificationData' = data
     /\ clientState' = r.cs
     /\ clientUpdates' = r.cu
     /\ activeClients' = r.ac

\* The rest of a processQueue run from the loop condition on: up to the next
\* sendTokens, or to the end of the run (broadcast, queueProcessing = false).
RunQueue(q, cl, d, pend, wallet) ==
  LET r == DrainLoop([q |-> q, cl |-> cl, d |-> d, lp |-> lastProcessedClaimTxIdx,
                      cur |-> 0], pend, TickView(wallet), wallet)
  IN /\ claimTxQueue' = r.q
     /\ claims' = r.cl
     /\ db' = r.d
     /\ lastProcessedClaimTxIdx' = r.lp
     /\ tickClaim' = r.cur
     /\ queueProcessing' = (r.cur # 0)
     /\ IF r.cur = 0 /\ ShouldBroadcast(lastNotificationData, r.lp, lastConfirmedClaimTxIdx)
        THEN BroadcastClaimNotification(<<r.lp, lastConfirmedClaimTxIdx>>)
        ELSE UNCHANGED <<hubLastNotificationData, hubvars>>

\* Line 265 without the return
TickSkipped_Never(processing) == FALSE

\* Line 265: a run that finds queueProcessing set returns at once.
TickSkipped(processing) == processing

\* The 2 s interval of line 93 fires; dispose clears it (line 101).
ProcessQueue ==
  /\ initialized
  /\ IF TickSkipped(queueProcessing)
     THEN UNCHANGED vars
     ELSE /\ tickAliased' = TRUE
          /\ tickWalletState' = NotReadyWallet
          /\ RunQueue(claimTxQueue, claims, db, pendingTxQueue, walletState)
          /\ UNCHANGED <<cwMaxPending, claimTxDict, pendingTxQueue, historyTxDict,
                         historyTimers, watchers, lastClaimTxIdx, lastConfirmedClaimTxIdx,
                         lastNotificationData, walletState, chainSeq, epoch,
                         faucetStatus, clock, refillvars, createError, restvars>>

\* dispose (lines 96-102): the hub's last notification is reset and the
\* interval is cleared; a run suspended in sendTokens is not touched.
Dispose ==
  /\ initialized
  /\ initialized' = FALSE
  /\ hubLastNotificationData' = <<>>
  /\ UNCHANGED <<cwMaxPending, claims, claimTxQueue, claimTxDict, pendingTxQueue,
                 historyTxDict, historyTimers, watchers, queueProcessing, tickClaim,
                 tickWalletState, tickAliased, lastClaimTxIdx, lastProcessedClaimTxIdx,
                 lastConfirmedClaimTxIdx, lastNotificationData, walletState, chainSeq,
                 db, epoch, hubvars, faucetStatus, clock, refillvars, createError,
                 cwIsNativeToken, queryvars, walletvars, sends>>


\* Lines 336 and 348 without the txHash: the claim goes to PENDING with no hash
SentClaim_NoHash(c, h) == [c EXCEPT !.claimStatus = "pending"]

\* Lines 336 and 348: the claim takes the hash of the broadcast and goes to PENDING.
SentClaim(c, h) == [c EXCEPT !.txHash = h, !.claimStatus = "pending"]

\* The catch of lines 352-356 without the status: the claim stays PROCESSING
ProcessingException_KeepsStatus(c) == [c EXCEPT !.txError = "Processing Exception"]

\* The catch of lines 352-356: the claim of a sendTokens call that threw.
ProcessingException(c) ==
  [c EXCEPT !.claimStatus = "failed", !.txError = "Processing Exception"]

\* processQueueTx resumes from sendTokens (lines 331-356), and the run goes on
\* with the loop.  A successful broadcast has the next hash of the chain.
SendTokensReturn(ok) ==
  /\ queueProcessing
  /\ LET o == tickClaim IN
     IF ok
     THEN LET h == chainSeq + 1
              ws == SentWalletState(walletState, DropAmount)
              c == SentClaim(claims[o], h)
              pend == MapPut(pendingTxQueue, h, o)
          IN /\ walletState' = ws
             /\ chainSeq' = chainSeq + 1
             /\ pendingTxQueue' = pend
             /\ watchers' = watchers \cup {o}
             /\ RunQueue(claimTxQueue, [claims EXCEPT ![o] = c],
                         updateClaimStatus(db, c, o), pend, ws)
     ELSE LET c == ProcessingException(claims[o])
          IN /\ RunQueue(claimTxQueue, [claims EXCEPT ![o] = c],
                         updateClaimStatus(db, c, o), pendingTxQueue, walletState)
             /\ UNCHANGED <<walletState, chainSeq, pendingTxQueue, watchers>>
  /\ IF tickClaim' = 0
     THEN tickAliased' = TRUE /\ tickWalletState' = NotReadyWallet
     ELSE UNCHANGED <<tickAliased, tickWalletState>>
  /\ sends' = IF ok THEN [sends EXCEPT ![tickClaim] = @ + 1] ELSE sends
  /\ UNCHANGED <<cwMaxPending, claimTxDict, historyTxDict, historyTimers, lastClaimTxIdx,
                 lastConfirmedClaimTxIdx, lastNotificationData, epoch,
                 faucetStatus, clock, refillvars, createError, sidevars>>

\* ------------------------------------------- CwClaimManager.awaitTxConfirmation
\* Line 380.
ConfirmedIdxAfter(prev, claimIdx) == claimIdx

\* The timer armed in lines 404-406: the closure holds the sequence read in
\* line 401 (claimTx is in its scope, the callback does not use it).
HistoryTimer(sequence, o) == [sequence |-> sequence, claimTx |-> o]

\* What getTx can answer: a transaction with code 0 ("code0"), no transaction
\* or one with another code ("rejected"), or an exception ("throws").
GetTxResults == {"code0", "rejected", "throws"}

\* tx.height of the transaction with hash h: the chain of the model puts the
\* h-th transaction of the wallet into block h.
TxHeight(h) == h

\* Lines 378-381 without txHeight and txFee
ConfirmedClaim_NoReceipt(c, h) == [c EXCEPT !.claimStatus = "confirmed"]

\* Lines 378-381: the claim of a transaction with code 0.
ConfirmedClaim(c, h) ==
  [c EXCEPT !.txHeight = TxHeight(h), !.txFee = cwGasAmount, !.claimStatus = "confirmed"]

\* Lines 368-370 and 395-396: the claim of a watcher that threw.
FailedClaim(c, result) ==
  [c EXCEPT !.claimStatus = "failed",
            !.txError = IF result = "rejected"
                        THEN "Transaction Error: Error: Transaction failed"
                        ELSE "Transaction Error: Error: getTx"]

\* getTx returns for the watcher of o (lines 366-407).
GetTxReturn(o, result) ==
  /\ o \in watchers
  /\ LET c0 == claims[o]
         code0 == result = "code0"
         c == IF code0 THEN ConfirmedClaim(c0, c0.txHash) ELSE FailedClaim(c0, result)
         sequence == walletState.sequence
     IN /\ pendingTxQueue' = IF c0.txHash # 0 THEN MapDelete(pendingTxQueue, c0.txHash)
                             ELSE pendingTxQueue
        /\ claimTxDict' = [claimTxDict EXCEPT ![c0.session] = 0]
        /\ lastConfirmedClaimTxIdx' =
             IF code0 THEN ConfirmedIdxAfter(lastConfirmedClaimTxIdx, c0.claimIdx)
             ELSE lastConfirmedClaimTxIdx
        /\ claims' = [claims EXCEPT ![o] = c]
        /\ db' = updateClaimStatus(db, c, o)
        /\ historyTxDict' = MapPut(historyTxDict, sequence, o)
        /\ historyTimers' = Append(historyTimers, HistoryTimer(sequence, o))
        /\ watchers' = watchers \ {o}
  /\ UNCHANGED <<cwMaxPending, claimTxQueue, queueProcessing, tickClaim, tickWalletState,
                 tickAliased, lastClaimTxIdx, lastProcessedClaimTxIdx,
                 lastNotificationData, hubLastNotificationData, walletState,
                 chainSeq, epoch, hubvars, faucetStatus, clock, refillvars, createError, restvars>>

\* The 30-minute timer a finished watcher armed fires (lines 404-406).  The
\* timers all run for the same time, so they fire in the order they were armed.
EvictHistory ==
  /\ historyTimers # <<>>
  /\ historyTxDict' = MapDelete(historyTxDict, Head(historyTimers).sequence)
  /\ historyTimers' = Tail(historyTimers)
  /\ UNCHANGED <<cwMaxPending, claims, claimTxQueue, claimTxDict, pendingTxQueue, watchers,
                 queueProcessing, tickClaim, tickWalletState, tickAliased,
                 lastClaimTxIdx, lastProcessedClaimTxIdx, lastConfirmedClaimTxIdx,
                 lastNotificationData, hubLastNotificationData, walletState,
                 chainSeq, db, epoch, hubvars, faucetStatus, clock, refillvars, createError, restvars>>

\* ------------------------------------------- CwClaimManager.getTransactionQueue
\* Object.values of a map of the model, as a sequence.  historyTxDict has
\* integer keys, which JavaScript enumerates in ascending order; the hashes in
\* pendingTxQueue are enumerated in the order they were inserted, and the chain
\* of the model issues them in ascending order.
RECURSIVE ObjectValues(_)
ObjectValues(m) ==
  IF DOMAIN m = {} THEN <<>>
  ELSE LET k == CHOOSE x \in DOMAIN m : \A y \in DOMAIN m : x <= y
       IN <<m[k]>> \o ObjectValues(MapDelete(m, k))

\* The queueOnly arguments a caller can pass.
QueueOnlyArgs == {"true", "false", "undefined"}

\* Lines 155-163.
getTransactionQueue(queueOnly) ==
  IF queueOnly # "true"
  THEN claimTxQueue \o ObjectValues(pendingTxQueue) \o ObjectValues(historyTxDict)
  ELSE claimTxQueue

\* A caller asks for the transaction queue and is handed the list.
GetTransactionQueue(queueOnly) ==
  /\ txlist' = getTransactionQueue(queueOnly)
  /\ txlistArg' = queueOnly
  /\ UNCHANGED <<cwMaxPending, claims, claimTxQueue, claimTxDict, pendingTxQueue,
                 historyTxDict, historyTimers, watchers, queueProcessing, tickClaim,
                 tickWalletState, tickAliased, lastClaimTxIdx,
                 lastProcessedClaimTxIdx, lastConfirmedClaimTxIdx,
                 lastNotificationData, hubLastNotificationData, walletState,
                 chainSeq, db, epoch, hubvars, faucetStatus, clock, refillvars,
                 createError, cwIsNativeToken, walletvars, initialized, sends>>

\* ------------------------------------------------------------ CwWalletRefill
\* Time passes.
ClockTick ==
  /\ clock < MaxTime
  /\ clock' = clock + 1
  /\ UNCHANGED <<cwMaxPending, claims, claimTxQueue, claimTxDict, pendingTxQueue,
                 historyTxDict, historyTimers, watchers, queueProcessing, tickClaim,
                 tickWalletState, tickAliased, lastClaimTxIdx,
                 lastProcessedClaimTxIdx, lastConfirmedClaimTxIdx,
                 lastNotificationData, hubLastNotificationData, walletState,
                 chainSeq, db, epoch, hubvars, faucetStatus,
                 refillvars, createError, restvars>>

\* The cooldown checks without the one on lastRefillTry
RefillCooldownsPassed_NoTryCooldown(now, lastTry, lastTime) ==
  ~(lastTime # 0 /\ cwRefillCooldown # 0 /\ now - lastTime < cwRefillCooldown)

\* The cooldown checks of tryRefillWallet (lines 35-49): FALSE when it returns.
RefillCooldownsPassed(now, lastTry, lastTime) ==
  /\ ~(lastTry # 0 /\ now - lastTry < RefillTryCooldown)
  /\ ~(lastTime # 0 /\ cwRefillCooldown # 0 /\ now - lastTime < cwRefillCooldown)

\* getQueuedAmount (CwClaimManager lines 165-171): every claim has DropAmount.
QueuedAmount(q) == Len(q) * DropAmount

\* ------------------------------------- CwWalletManager (calls and start-up)
\* Lines 228 and 262 without the check
WalletNotReady_Never(ws) == FALSE

\* Lines 228 and 262: the call throws "Wallet not ready".
WalletNotReady(ws) == ~ws.ready

\* The local deltas with the fee taken from the token balance as well
ExecutedWalletState_TakesTokens(ws, fee) ==
  [ws EXCEPT !.sequence = @ + 1, !.balance = @ - fee, !.nativeBalance = @ - fee]

\* executeContract, after a successful execute (lines 240-242): the local
\* deltas, applied in place to the manager's current object.
ExecutedWalletState(ws, fee) ==
  [ws EXCEPT !.sequence = @ + 1, !.nativeBalance = @ - fee]

\* What is left unchanged by the wallet manager on its own.
nonwalletvars == <<cwMaxPending, claims, claimTxQueue, claimTxDict, pendingTxQueue,
                   historyTxDict, historyTimers, watchers, queueProcessing, tickClaim,
                   lastClaimTxIdx, lastProcessedClaimTxIdx, lastConfirmedClaimTxIdx,
                   lastNotificationData, hubLastNotificationData, db, epoch, hubvars,
                   clock, refillvars, createError, cwIsNativeToken, queryvars,
                   initialized, sends>>

\* sendTokens up to its await (lines 258-301): not ready, it throws before the
\* signing client is used; otherwise the transfer is handed to the chain.
SendTokens(amount) ==
  /\ txCall = NoTxCall
  /\ walletState.sequence < MaxTxs
  /\ IF WalletNotReady(walletState)
     THEN txResult' = "Wallet not ready" /\ UNCHANGED txCall
     ELSE txResult' = "awaiting" /\ txCall' = [op |-> "send", amount |-> amount]
  /\ UNCHANGED <<nonwalletvars, walletState, chainSeq, faucetStatus, tickWalletState,
                 tickAliased, startPc>>

\* The chain answers the transfer (lines 303-325).
SendTokensDone(ok) ==
  /\ txCall.op = "send"
  /\ txCall' = NoTxCall
  /\ IF ok
     THEN /\ walletState' = SentWalletState(walletState, txCall.amount)
          /\ chainSeq' = chainSeq + 1
          /\ txResult' = "sent"
     ELSE /\ txResult' = "Failed to send tokens"
          /\ UNCHANGED <<walletState, chainSeq>>
  /\ UNCHANGED <<nonwalletvars, faucetStatus, tickWalletState, tickAliased, startPc>>

\* executeContract up to its await (lines 223-238), with fee.amount[0].amount.
ExecuteContract(fee) ==
  /\ txCall = NoTxCall
  /\ walletState.sequence < MaxTxs
  /\ IF WalletNotReady(walletState)
     THEN txResult' = "Wallet not ready" /\ UNCHANGED txCall
     ELSE txResult' = "awaiting" /\ txCall' = [op |-> "execute", amount |-> fee]
  /\ UNCHANGED <<nonwalletvars, walletState, chainSeq, faucetStatus, tickWalletState,
                 tickAliased, startPc>>

\* The chain answers the execute (lines 240-255).
ExecuteContractDone(ok) ==
  /\ txCall.op = "execute"
  /\ txCall' = NoTxCall
  /\ IF ok
     THEN /\ walletState' = ExecutedWalletState(walletState, txCall.amount)
          /\ chainSeq' = chainSeq + 1
          /\ txResult' = "executed"
     ELSE /\ txResult' = "Failed to execute contract"
          /\ UNCHANGED <<walletState, chainSeq>>
  /\ UNCHANGED <<nonwalletvars, faucetStatus, tickWalletState, tickAliased, startPc>>

\* startClient resumes from an await of lines 46-68: deriving the wallet and
\* its account ("wallet"), connecting the signing client ("signing"), connecting
\* the query client ("query").  An exception goes to the catch, which arms
\* the timer of line 78.
StartClientStep(ok) ==
  /\ startPc \in {"wallet", "signing", "query"}
  /\ startPc' = IF ~ok THEN "retry"
                ELSE IF startPc = "wallet" THEN "signing"
                ELSE IF startPc = "signing" THEN "query"
                ELSE "load"
  /\ UNCHANGED <<nonwalletvars, walletState, chainSeq, faucetStatus, tickWalletState,
                 tickAliased, txCall, txResult>>

\* The loadWalletState of line 70 completes: it has caught its own exception
\* (lines 147-161), so startClient returns whether it loaded or not.  With a
\* native token both balances are the balance of cwDenom.
StartClientLoad(ok, balance, native) ==
  /\ startPc = "load"
  /\ cwIsNativeToken => balance = native
  /\ PublishWalletState(ok, balance, native)
  /\ startPc' = "done"
  /\ UNCHANGED <<nonwalletvars, chainSeq, txCall, txResult>>

\* The timer of line 78 fires: startClient runs again.
StartClientRetry ==
  /\ startPc = "retry"
  /\ startPc' = "wallet"
  /\ UNCHANGED <<nonwalletvars, walletState, chainSeq, faucetStatus, tickWalletState,
                 tickAliased, txCall, txResult>>

\* The "reload" listener of lines 35-38 calls startClient (followed here when
\* no other startClient is running or scheduled).
Reload ==
  /\ startPc = "done"
  /\ startPc' = "wallet"
  /\ UNCHANGED <<nonwalletvars, walletState, chainSeq, faucetStatus, tickWalletState,
                 tickAliased, txCall, txResult>>

\* The decision with >= and <= for > and <
RefillAction_Inclusive(availableBalance) ==
  IF cwRefillOverflowAmount # 0 /\ availableBalance >= cwRefillOverflowAmount THEN "overflow"
  ELSE IF availableBalance <= cwRefillThreshold THEN "refill"
  ELSE "none"

\* Lines 72-86: what is needed for an available balance.
RefillAction(availableBalance) ==
  IF cwRefillOverflowAmount # 0 /\ availableBalance > cwRefillOverflowAmount THEN "overflow"
  ELSE IF availableBalance < cwRefillThreshold THEN "refill"
  ELSE "none"

\* executeRefill and executeOverflow (lines 139-187): the executeContract call
\* made for an action: its msg, the amount of a withdraw, and the amount of
\* the first coin of its fee argument.
RefillCall(action, availableBalance) ==
  IF action = "refill"
  THEN [msg |-> "withdraw", amount |-> cwRefillAmount, fee |-> cwGasAmount]
  ELSE [msg |-> "deposit", amount |-> 0, fee |-> availableBalance - cwRefillOverflowAmount]

NoRefillCall == [msg |-> "none", amount |-> 0, fee |-> 0]

\* An attempt in refillLog: try is the time of line 51, call the executeContract
\* call it made at time at, success the time of line 103.
RefillAttempt(try) == [try |-> try, call |-> NoRefillCall, at |-> 0, success |-> 0]

LastAttempt == refillLog[Len(refillLog)]

\* Line 20 without the test: every call starts tryRefillWallet
RefillInFlight_Never(pc) == FALSE

\* Line 20: a refillPromise exists, and the call returns it.
RefillInFlight(pc) == pc # "idle"

\* processWalletRefill (lines 19-26) and tryRefillWallet up to its first await
\* (lines 28-64).  While a refillPromise exists the call only returns it.  The
\* WalletState is read here and used after the await; nothing followed here
\* writes into that object in between.
ProcessWalletRefill ==
  IF RefillInFlight(refillPc)
  THEN UNCHANGED vars
  ELSE IF ~cwRefillEnabled \/ ~RefillCooldownsPassed(clock, lastRefillTry, lastRefillTime)
  THEN UNCHANGED vars
  ELSE /\ lastRefillTry' = clock
       /\ refillLog' = Append(refillLog, RefillAttempt(clock))
       /\ IF walletState.ready
          THEN refillPc' = "unclaimed" /\ refillWalletState' = walletState
          ELSE UNCHANGED <<refillPc, refillWalletState>>
       /\ UNCHANGED <<cwMaxPending, claims, claimTxQueue, claimTxDict, pendingTxQueue,
                      historyTxDict, historyTimers, watchers, queueProcessing, tickClaim,
                      tickWalletState, tickAliased, lastClaimTxIdx,
                      lastProcessedClaimTxIdx, lastConfirmedClaimTxIdx,
                      lastNotificationData, hubLastNotificationData, walletState,
                      chainSeq, db, epoch, hubvars, faucetStatus,
                      clock, isRefilling, lastRefillTime, createError, restvars>>

\* getUnclaimedBalance returns (lines 62-97, executeContract lines 228-238):
\* the decision, and the executeContract call up to its await; a wallet that
\* is not ready any more makes the call throw, which ends the attempt.
UnclaimedBalanceReturn(unclaimed) ==
  /\ refillPc = "unclaimed"
  /\ refillWalletState' = NotReadyWallet
  /\ LET availableBalance == refillWalletState.balance - unclaimed - QueuedAmount(claimTxQueue)
         refillAction == RefillAction(availableBalance)
     IN IF refillAction = "none"
        THEN /\ refillPc' = "idle"
             /\ UNCHANGED <<isRefilling, refillLog>>
        ELSE /\ refillLog' = [refillLog EXCEPT ![Len(refillLog)] =
                                [@ EXCEPT !.call = RefillCall(refillAction, availableBalance),
                                          !.at = clock]]
             /\ IF walletState.ready
                THEN refillPc' = "execute" /\ isRefilling' = TRUE
                ELSE refillPc' = "idle" /\ isRefilling' = FALSE
  /\ UNCHANGED <<cwMaxPending, claims, claimTxQueue, claimTxDict, pendingTxQueue,
                 historyTxDict, historyTimers, watchers, queueProcessing, tickClaim,
                 tickWalletState, tickAliased, lastClaimTxIdx,
                 lastProcessedClaimTxIdx, lastConfirmedClaimTxIdx,
                 lastNotificationData, hubLastNotificationData, walletState,
                 chainSeq, db, epoch, hubvars, faucetStatus,
                 clock, lastRefillTry, lastRefillTime, createError, restvars>>

\* lastRefillTime stamped whether or not a transaction hash came back
StampedRefillTime_Always(ok, now, lastTime) == now

\* Lines 99-103: lastRefillTime after executeContract has returned (ok) or
\* thrown.
StampedRefillTime(ok, now, lastTime) == IF ok THEN now ELSE lastTime

\* signingClient.execute returns (CwWalletManager lines 233-255, CwWalletRefill
\* lines 99-116).  After a broadcast lastRefillTime is set, the receipt is
\* there at once, and loadWalletState is called and awaited.
ExecuteContractReturn(ok) ==
  /\ refillPc = "execute"
  /\ IF ok
     THEN /\ walletState' = ExecutedWalletState(walletState, LastAttempt.call.fee)
          /\ chainSeq' = chainSeq + 1
          /\ refillLog' = [refillLog EXCEPT ![Len(refillLog)].success = clock]
          /\ refillPc' = "load"
          /\ UNCHANGED isRefilling
     ELSE /\ refillPc' = "idle"
          /\ isRefilling' = FALSE
          /\ UNCHANGED <<walletState, chainSeq, refillLog>>
  /\ lastRefillTime' = StampedRefillTime(ok, clock, lastRefillTime)
  /\ UNCHANGED <<cwMaxPending, claims, claimTxQueue, claimTxDict, pendingTxQueue,
                 historyTxDict, historyTimers, watchers, queueProcessing, tickClaim,
                 tickWalletState, tickAliased, lastClaimTxIdx,
                 lastProcessedClaimTxIdx, lastConfirmedClaimTxIdx,
                 lastNotificationData, hubLastNotificationData,
                 db, epoch, hubvars, faucetStatus,
                 clock, lastRefillTry, refillWalletState, createError, restvars>>

\* The loadWalletState of line 116 completes, and with it the attempt (the
\* finally of line 134, and that of line 21).
RefillLoadReturn(ok, balance, native) ==
  /\ refillPc = "load"
  /\ PublishWalletState(ok, balance, native)
  /\ refillPc' = "idle"
  /\ isRefilling' = FALSE
  /\ UNCHANGED <<cwMaxPending, claims, claimTxQueue, claimTxDict, pendingTxQueue,
                 historyTxDict, historyTimers, watchers, queueProcessing, tickClaim,
                 lastClaimTxIdx, lastProcessedClaimTxIdx, lastConfirmedClaimTxIdx,
                 lastNotificationData, hubLastNotificationData,
                 chainSeq, db, epoch, hubvars,
                 clock, lastRefillTry, lastRefillTime, refillWalletState, refillLog, createError, restvars>>

\* loadWalletState called by anyone else, with any token balance on the chain.
WalletRefresh(ok, balance, native) ==
  /\ LoadWalletStateWith(ok, balance, native)
  /\ UNCHANGED <<cwMaxPending, claims, claimTxQueue, claimTxDict, pendingTxQueue, historyTxDict,
                 historyTimers, watchers, queueProcessing, tickClaim,
                 lastClaimTxIdx, lastProcessedClaimTxIdx, lastConfirmedClaimTxIdx,
                 lastNotificationData, hubLastNotificationData, chainSeq, db, epoch,
                 hubvars, clock, refillvars, createError, restvars>>

\* -------------------------------- CwClaimManager.processClaimNotificationWebSocket
\* A client opens /ws/claim?session=s (lines 104-153).  A request that is
\* refused gets an error and is closed.  Otherwise the client is created with
\* the claimIdx of the stored claim (it is the claimIdx of the ClaimInfo o), is
\* put into activeClients and is sent the hub's last notification at once
\* (CwClaimNotificationClient lines 35-72).  One client per claim is followed.
Subscribe(s) ==
  LET o == db[s].obj IN
  IF db[s].status # "claiming" \/ o = 0
  THEN UNCHANGED vars
  ELSE /\ clientState[o] = "none"
       /\ LET joined == [clientState EXCEPT ![o] = "active"]
              pushed == Append(activeClients, o)
              sent == SentNotification(joined, clientUpdates, o, hubLastNotificationData)
          IN IF hubLastNotificationData # <<>>
             THEN /\ clientState' = [joined EXCEPT ![o] = sent.state]
                  /\ clientUpdates' = [clientUpdates EXCEPT ![o] = sent.updates]
                  /\ activeClients' =
                       IF ClosesOn(hubLastNotificationData, claims[o].claimIdx)
                       THEN RemoveClient(pushed, o) ELSE pushed
             ELSE /\ clientState' = joined
                  /\ activeClients' = pushed
                  /\ UNCHANGED clientUpdates
       /\ UNCHANGED <<cwMaxPending, claims, claimTxQueue, claimTxDict, pendingTxQueue,
                      historyTxDict, historyTimers, watchers, queueProcessing, tickClaim,
                      tickWalletState, tickAliased, lastClaimTxIdx,
                      lastProcessedClaimTxIdx, lastConfirmedClaimTxIdx,
                      lastNotificationData, hubLastNotificationData, walletState,
                      chainSeq, db, epoch, faucetStatus, clock, refillvars, createError, restvars>>

\* The peer closes the socket: the "close" handler disposes of the client
\* (CwClaimNotificationClient lines 61-63 and 74-86).
CloseSocket(o) ==
  /\ clientState[o] = "active"
  /\ clientState' = [clientState EXCEPT ![o] = "none"]
  /\ clientUpdates' = [clientUpdates EXCEPT ![o] = 0]
  /\ activeClients' = RemoveClient(activeClients, o)
  /\ UNCHANGED <<cwMaxPending, claims, claimTxQueue, claimTxDict, pendingTxQueue,
                 historyTxDict, historyTimers, watchers, queueProcessing, tickClaim,
                 tickWalletState, tickAliased, lastClaimTxIdx,
                 lastProcessedClaimTxIdx, lastConfirmedClaimTxIdx,
                 lastNotificationData, hubLastNotificationData, walletState,
                 chainSeq, db, epoch, faucetStatus, clock, refillvars, createError, restvars>>

\* ------------------------------------------------- CwClaimManager.initialize
\* The stored sessions in CLAIMING whose claim initialize reinstates.
RestoredQueue(d) ==
  {d[s].obj : s \in {x \in Sessions : d[x].status = "claiming"
                                       /\ d[x].claimStatus \in {"queue", "processing"}}}

RestoredPending(d) ==
  {d[s].obj : s \in {x \in Sessions : d[x].status = "claiming"
                                       /\ d[x].claimStatus = "pending"}}

\* claimTxQueue.sort by claimIdx (line 82), of a set of objects
RECURSIVE SortByClaimIdx(_, _)
SortByClaimIdx(cl, S) ==
  IF S = {} THEN <<>>
  ELSE LET m == CHOOSE x \in S : \A y \in S :
                  \/ cl[x].claimIdx < cl[y].claimIdx
                  \/ (cl[x].claimIdx = cl[y].claimIdx /\ x <= y)
       IN <<m>> \o SortByClaimIdx(cl, S \ {m})

\* Line 83, with maxQueueIdx of lines 43 and 77-79
NextClaimIdx(cl, S) ==
  LET maxQueueIdx == IF S = {} THEN 0
                     ELSE CHOOSE m \in {cl[o].claimIdx : o \in S} :
                            \A o \in S : cl[o].claimIdx <= m
  IN maxQueueIdx + 1

\* The orders in which getSessions may hand the sessions of S to the forEach.
Orders(S) ==
  {f \in [1..Cardinality(S) -> S] : \A i, j \in 1..Cardinality(S) : i # j => f[i] # f[j]}

\* awaitTxConfirmation called from initialize (line 67) for a claim that has no
\* txHash (line 364) or while the wallet manager has no query client yet, so
\* that client.getTx throws before anything is awaited: the catch and the
\* finally blocks (lines 384-407) run inside initialize, for each such claim
\* in turn.  st = [cl, d, hist, timers].
RECURSIVE FailRestored(_, _, _, _)
FailRestored(st, order, i, sequence) ==
  IF i > Len(order) THEN st
  ELSE LET o == order[i]
           c == [st.cl[o] EXCEPT !.claimStatus = "failed",
                                 !.txError = IF st.cl[o].txHash = 0
                                             THEN "Transaction Error: Transaction hash is undefined"
                                             ELSE "Transaction Error: TypeError"]
       IN FailRestored([cl |-> [st.cl EXCEPT ![o] = c],
                        d |-> updateClaimStatus(st.d, c, o),
                        hist |-> MapPut(st.hist, sequence, o),
                        timers |-> Append(st.timers, HistoryTimer(sequence, o))],
                       order, i + 1, sequence)

\* The process dies and is started again: every field is back at its initial
\* value, the wallet manager has run its initialize (connected: startClient
\* opened its clients; otherwise it has scheduled its retry and queryClient is
\* still undefined) and has not published a loaded WalletState yet, and
\* initialize rebuilds the maps from the session store.  Objects of the dead
\* process that are not restored are kept as they were if terminal, and marked
\* lost otherwise.  sent: the chain had accepted the transfer of the run that
\* was suspended in sendTokens.
RestartFrom(connected, sent) ==
  /\ epoch < MaxRestarts
  /\ epoch' = epoch + 1
  /\ LET rq == RestoredQueue(db)
         rp == RestoredPending(db)
         stored(o) == db[claims[o].session]
         cl == [o \in Objs |->
                  IF o \in rq \cup rp
                  THEN [claims[o] EXCEPT !.claimStatus = stored(o).claimStatus,
                                         !.txHash = stored(o).txHash,
                                         !.txError = "", !.call = "ok"]
                  ELSE IF claims[o].call = "none" \/ claims[o].claimStatus \in Terminal
                  THEN claims[o]
                  ELSE [NoClaim EXCEPT !.call = "lost"]]
         thrown == IF connected THEN {o \in rp : cl[o].txHash = 0} ELSE rp
         watched == rp \ thrown
     IN \E order \in Orders(thrown) :
          LET r == FailRestored([cl |-> cl, d |-> db, hist |-> EmptyMap, timers |-> <<>>],
                                order, 1, NotReadyWallet.sequence)
          IN /\ claims' = r.cl
             /\ db' = r.d
             /\ historyTxDict' = r.hist
             /\ historyTimers' = r.timers
             /\ claimTxQueue' = SortByClaimIdx(cl, rq)
             /\ claimTxDict' = [s \in Sessions |->
                                  IF db[s].obj \in rq \cup watched /\ db[s].status = "claiming"
                                  THEN db[s].obj ELSE 0]
             /\ pendingTxQueue' = [h \in {cl[o].txHash : o \in watched}
                                     |-> CHOOSE o \in watched : cl[o].txHash = h]
             /\ watchers' = watched
             /\ lastClaimTxIdx' = NextClaimIdx(cl, rq \cup rp)
  /\ queueProcessing' = FALSE
  /\ tickClaim' = 0
  /\ tickWalletState' = NotReadyWallet
  /\ tickAliased' = TRUE
  /\ lastProcessedClaimTxIdx' = 0
  /\ lastConfirmedClaimTxIdx' = 0
  /\ lastNotificationData' = "null"
  /\ hubLastNotificationData' = <<>>
  /\ walletState' = NotReadyWallet
  /\ clientState' = [o \in Objs |-> "none"]
  /\ clientUpdates' = [o \in Objs |-> 0]
  /\ activeClients' = <<>>
  /\ faucetStatus' = NoFaucetStatus
  /\ refillPc' = "idle"
  /\ isRefilling' = FALSE
  /\ lastRefillTry' = 0
  /\ lastRefillTime' = 0
  /\ refillWalletState' = NotReadyWallet
  /\ chainSeq' = IF sent THEN chainSeq + 1 ELSE chainSeq
  /\ sends' = IF sent THEN [sends EXCEPT ![tickClaim] = @ + 1] ELSE sends
  /\ UNCHANGED <<cwMaxPending, clock, refillLog, createError, sidevars>>

\* The process dies at a point where no transfer it has handed to the chain
\* is unanswered, or the chain has not accepted that transfer.
Restart(connected) == RestartFrom(connected, FALSE)

\* The process dies while processQueueTx awaits sendTokens (line 331) and the
\* chain has accepted the transfer: lines 336-349 never run.
RestartAfterBroadcast(connected) ==
  /\ queueProcessing
  /\ tickClaim # 0
  /\ RestartFrom(connected, TRUE)

\* ------------------------------------------------------------------- Next
Next ==
  \/ \E s \in Sessions : CreateStart(s)
  \/ \E o \in Objs, outcome \in {"ok", "hook", "updateSession"} :
       CreateReturn(o, outcome)
  \/ ProcessQueue
  \/ \E ok \in BOOLEAN : SendTokensReturn(ok)
  \/ \E o \in Objs, result \in GetTxResults : GetTxReturn(o, result)
  \/ EvictHistory
  \/ \E ok \in BOOLEAN, native \in ChainNativeBalances : LoadWalletState(ok, native)

Spec == Init /\ [][Next]_vars

NextWithRestart ==
  \/ Next
  \/ \E connected \in BOOLEAN : Restart(connected)
  \/ \E connected \in BOOLEAN : RestartAfterBroadcast(connected)

SpecRestart == Init /\ [][NextWithRestart]_vars

\* The pipeline with clients on the claim websocket.
NotifyNext ==
  \/ Next
  \/ \E s \in Sessions : Subscribe(s)
  \/ \E o \in Objs : CloseSocket(o)

NotifySpec == Init /\ [][NotifyNext]_vars

\* The pipeline and dispose.
DisposeNext ==
  \/ Next
  \/ Dispose

DisposeSpec == Init /\ [][DisposeNext]_vars

\* The pipeline up to a call of getTransactionQueue and its answer.
QueryNext ==
  \/ txlistArg = "none" /\ Next
  \/ \E queueOnly \in QueueOnlyArgs :
       txlistArg = "none" /\ GetTransactionQueue(queueOnly)

QuerySpec == Init /\ [][QueryNext]_vars

\* The wallet manager on its own: its start-up, and callers of sendTokens and
\* executeContract.
TxAmounts == {cwMinAmount, cwMaxAmount}

WalletNext ==
  \/ \E ok \in BOOLEAN : StartClientStep(ok)
  \/ \E ok \in BOOLEAN, balance \in ChainTokenBalances, native \in ChainNativeBalances :
       StartClientLoad(ok, balance, native)
  \/ StartClientRetry
  \/ Reload
  \/ \E amount \in TxAmounts : SendTokens(amount)
  \/ \E ok \in BOOLEAN : SendTokensDone(ok)
  \/ \E fee \in TxAmounts : ExecuteContract(fee)
  \/ \E ok \in BOOLEAN : ExecuteContractDone(ok)

WalletSpec == WalletInit /\ [][WalletNext]_vars

\* createSessionClaim called with every kind of session.
DropAmounts == {cwMinAmount - 1, cwMinAmount, cwMaxAmount + 1}

CreateNext ==
  \/ \E s \in Sessions, status \in {"claimable", "claiming"},
        dropAmount \in DropAmounts, addrOk \in BOOLEAN :
       CreateCall(s, status, dropAmount, addrOk)
  \/ \E o \in Objs, outcome \in {"ok", "hook", "updateSession"} :
       CreateReturn(o, outcome)

CreateSpec == Init /\ [][CreateNext]_vars

\* The wallet manager and the refill controller.  They start next to a
\* pipeline in whose queue the claims of the first n sessions wait.
QueuedSession(o) == IF o = 1 THEN "s1" ELSE "s2"

RefillInit ==
  /\ cwMaxPending = 1
  /\ \E n \in 0..Cardinality(Sessions) :
       /\ claims = [o \in Objs |->
                      IF o <= n
                      THEN [session |-> QueuedSession(o), claimIdx |-> o,
                            claimStatus |-> "queue", txHash |-> 0, txError |-> "",
                           txHeight |-> 0, txFee |-> 0,
                            call |-> "ok"]
                      ELSE NoClaim]
       /\ claimTxQueue = [i \in 1..n |-> i]
       /\ claimTxDict = [s \in Sessions |->
                           IF \E o \in 1..n : QueuedSession(o) = s
                           THEN CHOOSE o \in 1..n : QueuedSession(o) = s ELSE 0]
       /\ db = [s \in Sessions |->
                  IF \E o \in 1..n : QueuedSession(o) = s
                  THEN [status |-> "claiming",
                        obj |-> CHOOSE o \in 1..n : QueuedSession(o) = s,
                        claimStatus |-> "queue", txHash |-> 0]
                  ELSE [status |-> "claimable", obj |-> 0,
                        claimStatus |-> "none", txHash |-> 0]]
       /\ lastClaimTxIdx = n + 1
  /\ pendingTxQueue = EmptyMap
  /\ historyTxDict = EmptyMap
  /\ historyTimers = <<>>
  /\ watchers = {}
  /\ queueProcessing = FALSE
  /\ tickClaim = 0
  /\ tickWalletState = NotReadyWallet
  /\ tickAliased = TRUE
  /\ lastProcessedClaimTxIdx = 0
  /\ lastConfirmedClaimTxIdx = 0
  /\ lastNotificationData = "null"
  /\ hubLastNotificationData = <<>>
  /\ walletState = NotReadyWallet
  /\ chainSeq = 0
  /\ epoch = 0
  /\ clientState = [o \in Objs |-> "none"]
  /\ clientUpdates = [o \in Objs |-> 0]
  /\ activeClients = <<>>
  /\ faucetStatus = NoFaucetStatus
  /\ clock = 1
  /\ refillPc = "idle"
  /\ isRefilling = FALSE
  /\ lastRefillTry = 0
  /\ lastRefillTime = 0
  /\ refillWalletState = NotReadyWallet
  /\ refillLog = <<>>
  /\ createError = "ok"
  /\ cwIsNativeToken = FALSE
  /\ txlist = <<>>
  /\ txlistArg = "none"
  /\ startPc = "done"
  /\ txCall = NoTxCall
  /\ txResult = "none"
  /\ initialized = TRUE
  /\ sends = [o \in Objs |-> 0]

RefillNext ==
  \/ ClockTick
  \/ ProcessWalletRefill
  \/ \E unclaimed \in UnclaimedBalances : UnclaimedBalanceReturn(unclaimed)
  \/ \E ok \in BOOLEAN : ExecuteContractReturn(ok)
  \/ \E ok \in BOOLEAN, balance \in ChainTokenBalances, native \in ChainNativeBalances :
       RefillLoadReturn(ok, balance, native)
  \/ \E ok \in BOOLEAN, balance \in ChainTokenBalances, native \in ChainNativeBalances :
       WalletRefresh(ok, balance, native)

RefillSpec == RefillInit /\ [][RefillNext]_vars

\* The pipeline with claims already queued, and clients on the claim
\* websocket that stay connected until the hub closes them.
HubNext ==
  \/ ProcessQueue
  \/ \E ok \in BOOLEAN : SendTokensReturn(ok)
  \/ \E o \in Objs, result \in GetTxResults : GetTxReturn(o, result)
  \/ \E ok \in BOOLEAN, native \in ChainNativeBalances : LoadWalletState(ok, native)
  \/ \E s \in Sessions : Subscribe(s)

HubSpec == RefillInit /\ [][HubNext]_vars


\* ------------------------------------------------------------- properties
Accepted(o) == claims[o].call = "ok"

SessionsInQueue(s) == {i \in DOMAIN claimTxQueue : claims[claimTxQueue[i]].session = s}

SessionsInPending(s) == {h \in DOMAIN pendingTxQueue : claims[pendingTxQueue[h]].session = s}

SessionsInHistory(s) == {k \in DOMAIN historyTxDict : claims[historyTxDict[k]].session = s}

WalletGood == walletState.ready /\ walletState.nativeBalance > cwMinGasAmount

\* No session has two ClaimInfo objects (the double claim of C1 has not happened).
OneClaimPerSession ==
  \A o1, o2 \in Objs :
    (o1 # o2 /\ claims[o1].session # "") => claims[o1].session # claims[o2].session

\* C1: of the createSessionClaim calls made for one session, at most one returns
\* a ClaimInfo (the others fail with RACE_CLAIMING), and the queue never holds
\* two claims of the same session.
C1_OneClaimPerSession ==
  \A s \in Sessions :
    /\ Cardinality({o \in Objs : Accepted(o) /\ claims[o].session = s}) <= 1
    /\ Cardinality(SessionsInQueue(s)) <= 1

\* C2: whenever processQueue is not running, pendingTxQueue holds at most
\* cwMaxPending entries, whatever claims, ticks, confirmations and restarts
\* came before.
C2_PendingBounded ==
  ~queueProcessing => Cardinality(DOMAIN pendingTxQueue) <= cwMaxPending

\* C2 witness: between two runs the pending map is full and a claim waits in
\* the queue although the wallet could pay for it.
C2_Witness ==
  /\ ~queueProcessing
  /\ Cardinality(DOMAIN pendingTxQueue) = cwMaxPending
  /\ claimTxQueue # <<>>
  /\ WalletGood

\* C3: a session is represented in at most one of the queue, the pending map
\* and the history map, and at most once in the queue.
C3_SingleMembership ==
  \A s \in Sessions :
    /\ Cardinality(SessionsInQueue(s)) <= 1
    /\ Cardinality({m \in {"queue", "pending", "history"} :
                      \/ m = "queue" /\ SessionsInQueue(s) # {}
                      \/ m = "pending" /\ SessionsInPending(s) # {}
                      \/ m = "history" /\ SessionsInHistory(s) # {}}) <= 1

\* C4: lastConfirmedClaimTxIdx never decreases, in whatever order the
\* confirmation watchers complete.  (Stated for runs without a double claim.)
C4_ConfirmedIdxMonotone ==
  [][OneClaimPerSession => lastConfirmedClaimTxIdx' >= lastConfirmedClaimTxIdx]_vars

\* C5: claims leave the queue in ascending claimIdx order, so that
\* lastProcessedClaimTxIdx never decreases, however createSessionClaim calls
\* for different sessions interleave with the tick.
C5_ProcessedIdxMonotone ==
  [][OneClaimPerSession => lastProcessedClaimTxIdx' >= lastProcessedClaimTxIdx]_vars

\* C6: a claim leaves the queue only while the wallet manager's WalletState is
\* ready with nativeBalance > cwMinGasAmount.  (No handler changes the wallet
\* after a dequeue of the same step, so walletState' is the state at the
\* dequeue.)
C6_DequeueOnlyWithGas ==
  [][(OneClaimPerSession /\ Len(claimTxQueue') < Len(claimTxQueue))
       => walletState'.ready /\ walletState'.nativeBalance > cwMinGasAmount]_vars

C8_DictHoldsLiveClaims ==
  \A s \in Sessions :
    (OneClaimPerSession /\ claimTxDict[s] # 0) => claims[claimTxDict[s]].claimStatus \notin Terminal

\* C9: if the wallet eventually is and stays ready with nativeBalance above
\* cwMinGasAmount, every claim createSessionClaim returned is eventually
\* CONFIRMED or FAILED (the tick keeps firing; sendTokens and getTx return).
C9_EventuallySettled ==
  (<>[]WalletGood) =>
     \A o \in Objs : Accepted(o) ~> (claims[o].claimStatus \in Terminal)

\* C9 witness: an accepted claim has been settled while the wallet is good.
C9_Witness ==
  /\ WalletGood
  /\ \E o \in Objs : Accepted(o) /\ claims[o].claimStatus = "confirmed"
  /\ \E o \in Objs : Accepted(o) /\ claims[o].claimStatus = "failed"

\* C10: no two claims ever created carry the same claimIdx, restarts included.
C10_ClaimIdxUnique ==
  \A o1, o2 \in Objs :
    (OneClaimPerSession /\ o1 # o2 /\ claims[o1].claimIdx # 0 /\ claims[o2].claimIdx # 0)
      => claims[o1].claimIdx # claims[o2].claimIdx

\* C11: startup recovery reinstates every stored CLAIMING session: a claim
\* stored as QUEUE or PROCESSING is in the queue, which is sorted by claimIdx,
\* and in claimTxDict with its status unchanged; a claim stored as PENDING with
\* a txHash is in pendingTxQueue under that hash and in claimTxDict, is still
\* PENDING, and a watcher awaits getTx for it; any other session is in none of
\* the maps.
C11_RecoveryReinstates ==
  [][epoch' = epoch + 1 =>
       /\ \A i, j \in DOMAIN claimTxQueue' :
            i < j => claims'[claimTxQueue'[i]].claimIdx <= claims'[claimTxQueue'[j]].claimIdx
       /\ \A s \in Sessions :
            LET o == db[s].obj
                inQueue == \E i \in DOMAIN claimTxQueue' : claimTxQueue'[i] = o
                inPending == \E h \in DOMAIN pendingTxQueue' : pendingTxQueue'[h] = o
            IN IF db[s].status = "claiming" /\ db[s].claimStatus \in {"queue", "processing"}
               THEN /\ inQueue /\ ~inPending
                    /\ claimTxDict'[s] = o
                    /\ claims'[o].claimStatus = db[s].claimStatus
               ELSE IF db[s].status = "claiming" /\ db[s].claimStatus = "pending"
                       /\ db[s].txHash # 0
               THEN /\ db[s].txHash \in DOMAIN pendingTxQueue'
                    /\ pendingTxQueue'[db[s].txHash] = o
                    /\ ~inQueue
                    /\ claimTxDict'[s] = o
                    /\ o \in watchers'
                    /\ claims'[o].claimStatus = "pending"
               ELSE /\ claimTxDict'[s] = 0
                    /\ o # 0 => ~inQueue /\ ~inPending]_vars

\* C12: every ClaimInfo in pendingTxQueue has a txHash, and it is the key the
\* claim is stored under; also right after startup recovery.
C12_PendingHasItsHash ==
  \A h \in DOMAIN pendingTxQueue :
    /\ h # 0
    /\ claims[pendingTxQueue[h]].txHash = h

\* C12 witness: after a restart, two claims are in pendingTxQueue.
C12_Witness ==
  /\ epoch > 0
  /\ Cardinality(DOMAIN pendingTxQueue) = 2

C14_RefillCooldowns ==
  /\ \A j \in DOMAIN refillLog :
       refillLog[j].call.msg # "none" => refillLog[j].at >= refillLog[j].try
  /\ \A i, j \in DOMAIN refillLog :
       i < j =>
         /\ refillLog[j].try - refillLog[i].try >= RefillTryCooldown
         /\ refillLog[i].success # 0
              => refillLog[j].try - refillLog[i].success >= cwRefillCooldown

\* C14 witness: a refill went through, and the next attempt, made once both
\* cooldowns were over, has called executeContract for another one.
C14_Witness ==
  /\ Len(refillLog) >= 2
  /\ refillLog[1].call.msg = "withdraw"
  /\ refillLog[1].success # 0
  /\ refillLog[2].call.msg = "withdraw"

\* C15: with available = the token balance of the WalletState the attempt
\* read - getUnclaimedBalance() - getQueuedAmount(), an attempt that passed the
\* cooldowns calls executeContract with {deposit:{}} and, in the fee argument
\* (where the spec puts the funds), available - cwRefillOverflowAmount exactly
\* when available > cwRefillOverflowAmount; with {withdraw:{amount:
\* cwRefillAmount}} exactly when it does not overflow and available <
\* cwRefillThreshold; and not at all when available is inside the band.
C15_RefillDecision ==
  [][\A unclaimed \in UnclaimedBalances :
       UnclaimedBalanceReturn(unclaimed) =>
         LET available == refillWalletState.balance - unclaimed
                            - Len(claimTxQueue) * DropAmount
             issued == refillLog'[Len(refillLog')].call
         IN /\ issued.msg = "deposit" <=> available > cwRefillOverflowAmount
            /\ issued.msg = "deposit" => issued.fee = available - cwRefillOverflowAmount
            /\ issued.msg = "withdraw" <=> (available < cwRefillThreshold
                                            /\ ~(available > cwRefillOverflowAmount))
            /\ issued.msg = "withdraw" => issued.amount = cwRefillAmount
            /\ issued.msg = "none" <=> (available >= cwRefillThreshold
                                        /\ available <= cwRefillOverflowAmount)]_vars

\* C15 witness: one attempt has deposited what exceeded the overflow amount,
\* another has withdrawn the refill amount.
C15_Witness ==
  \E i, j \in DOMAIN refillLog :
    /\ refillLog[i].call.msg = "deposit"
    /\ refillLog[i].call.fee = 1
    /\ refillLog[j].call.msg = "withdraw"
    /\ refillLog[j].call.amount = cwRefillAmount

\* C16: a tick broadcasts only if <<lastProcessedClaimTxIdx,
\* lastConfirmedClaimTxIdx>> differs from the pair of the previous broadcast:
\* a client that was listening gets an update only when the hub's last
\* notification changes.
C16_BroadcastOnlyOnChange ==
  [][(\E o \in Objs : clientState[o] = "active" /\ clientUpdates'[o] > clientUpdates[o])
       => hubLastNotificationData' # hubLastNotificationData]_vars

\* C17: a client is killed with "claim confirmed" only when the claim it
\* subscribed to is CONFIRMED.  (Stated for runs without a double claim.)
C17_KilledOnlyWhenOwnClaimConfirmed ==
  [][OneClaimPerSession =>
       \A o \in Objs :
         (clientState'[o] = "claim confirmed" /\ clientState[o] # "claim confirmed")
           => claims'[o].claimStatus = "confirmed"]_vars

\* C18: a claim whose watcher has finished is in historyTxDict until its own
\* eviction timer fires, however many other watchers finish in the meantime.
\* (Stated for runs without a double claim.)
C18_HistoryKeepsFinished ==
  OneClaimPerSession =>
    \A i \in DOMAIN historyTimers :
      \E k \in DOMAIN historyTxDict : historyTxDict[k] = historyTimers[i].claimTx

\* The level the claim asks for: the most severe condition that applies.
C19_Level(ws) ==
  CASE ~ws.ready -> "error"
    [] ws.ready /\ (ws.balance <= cwMinBalance \/ ws.nativeBalance <= cwMinGasAmount)
         -> "error"
    [] ws.ready /\ ws.balance > cwMinBalance /\ ws.nativeBalance > cwMinGasAmount
         /\ ws.balance <= cwLowBalanceThreshold -> "warning"
    [] OTHER -> "info"

\* C19: whenever a loadWalletState completes, with or without success, the
\* FaucetStatus entry "wallet" holds the most severe condition that applies to
\* the WalletState it published (a failed load publishes ready = false with
\* zero balances); INFO comes with an empty message.
C19_StatusAfterLoad ==
  [][(\E ok \in BOOLEAN, balance \in ChainTokenBalances, native \in ChainNativeBalances :
        WalletRefresh(ok, balance, native) \/ RefillLoadReturn(ok, balance, native))
       => /\ faucetStatus'.level = C19_Level(walletState')
          /\ faucetStatus'.level = "info" => faucetStatus'.message = ""
          /\ ~walletState'.ready => walletState' = NotReadyWallet]_vars

\* C19 witness: a load has published a balance that is exactly
\* cwLowBalanceThreshold, and the entry is a warning.
C19_Witness ==
  /\ walletState.ready
  /\ walletState.balance = cwLowBalanceThreshold
  /\ walletState.nativeBalance > cwMinGasAmount
  /\ faucetStatus.level = "warning"

\* The error the claim asks for: that of the first precondition violated, in
\* the order NOT_CLAIMABLE, AMOUNT_TOO_LOW, AMOUNT_TOO_HIGH, INVALID_ADDRESS,
\* RACE_CLAIMING.
C20_FirstViolated(status, dropAmount, addrOk, dictEntry) ==
  LET checks == << <<status # "claimable", "NOT_CLAIMABLE">>,
                   <<dropAmount < cwMinAmount, "AMOUNT_TOO_LOW">>,
                   <<dropAmount > cwMaxAmount, "AMOUNT_TOO_HIGH">>,
                   <<~addrOk, "INVALID_ADDRESS">>,
                   <<dictEntry # 0, "RACE_CLAIMING">> >>
      violated == {i \in DOMAIN checks : checks[i][1]}
  IN IF violated = {} THEN "ok"
     ELSE checks[CHOOSE i \in violated : \A j \in violated : i <= j][2]

\* C20: createSessionClaim fails with the error of the first precondition
\* violated, and gets to create a ClaimInfo only if none is.
C20_PreconditionOrder ==
  [][\A s \in Sessions, status \in {"claimable", "claiming"},
        dropAmount \in DropAmounts, addrOk \in BOOLEAN :
       CreateCall(s, status, dropAmount, addrOk) =>
         /\ createError' = C20_FirstViolated(status, dropAmount, addrOk, claimTxDict[s])
         /\ claims' # claims => createError' = "ok"]_vars

\* C20 witness: a call has got as far as the last precondition, for a session
\* whose claim is in claimTxDict.
C20_Witness ==
  /\ createError = "RACE_CLAIMING"
  /\ \E s \in Sessions : claimTxDict[s] # 0

\* C21: getTransactionQueue(queueOnly) returns the queue followed by the values
\* of pendingTxQueue, and after them the values of historyTxDict exactly when
\* queueOnly is false or absent; the pending claims are in the list for both
\* values of queueOnly.
C21_TransactionQueue ==
  [][\A queueOnly \in QueueOnlyArgs :
       GetTransactionQueue(queueOnly) =>
         txlist' = claimTxQueue \o ObjectValues(pendingTxQueue)
                     \o (IF queueOnly = "true" THEN <<>> ELSE ObjectValues(historyTxDict))]_vars

\* processQueueTx returns for claim o in this step: o has left the queue, or was
\* the claim the suspended run was sending, and the run is not (or no longer)
\* suspended on it.
C22_Returned(o) ==
  /\ epoch' = epoch
  /\ tickClaim' # o
  /\ \/ queueProcessing /\ tickClaim = o
     \/ /\ \E i \in DOMAIN claimTxQueue : claimTxQueue[i] = o
        /\ \A i \in DOMAIN claimTxQueue' : claimTxQueue'[i] # o

\* C22: when processQueueTx returns, its claim is neither QUEUE nor PROCESSING:
\* it is PENDING with a txHash, in pendingTxQueue under that hash, with a
\* watcher awaiting getTx, or it is FAILED with one of the three errors; and
\* the session store holds the new status (shown for a session with one
\* claim, whose stored claim no other claim overwrites).
C22_ProcessOneSettles ==
  [][\A o \in Objs :
       C22_Returned(o) =>
         LET c == claims'[o] IN
         /\ \/ /\ c.claimStatus = "pending"
               /\ c.txHash # 0
               /\ c.txHash \in DOMAIN pendingTxQueue'
               /\ pendingTxQueue'[c.txHash] = o
               /\ o \in watchers'
            \/ /\ c.claimStatus = "failed"
               /\ c.txError \in {"Network RPC is currently unreachable.",
                                 "Faucet wallet is out of gas funds.",
                                 "Processing Exception"}
         /\ OneClaimPerSession' =>
              /\ db'[c.session].obj = o
              /\ db'[c.session].claimStatus = c.claimStatus
              /\ db'[c.session].txHash = c.txHash]_vars

\* C22 witness: one claim was sent and is PENDING under its hash, the next was
\* failed by the same run for lack of gas, and both are stored so.
C22_Witness ==
  \E o1, o2 \in Objs :
    /\ claims[o1].claimStatus = "pending"
    /\ pendingTxQueue[claims[o1].txHash] = o1
    /\ o1 \in watchers
    /\ claims[o2].claimStatus = "failed"
    /\ claims[o2].txError = "Faucet wallet is out of gas funds."
    /\ db[claims[o1].session].claimStatus = "pending"
    /\ db[claims[o2].session].claimStatus = "failed"

\* The txError values that contain "Transaction failed".
C23_NamesTransactionFailed(e) == e = "Transaction Error: Error: Transaction failed"

\* C23: when the watcher of a claim finishes, the claim is CONFIRMED, with the
\* height of the transaction as txHeight and cwGasAmount as txFee, if and only
\* if getTx returned a transaction with code 0; it is FAILED with a txError
\* containing "Transaction failed" if getTx returned no transaction or another
\* code; either way it is FAILED or CONFIRMED and is neither in pendingTxQueue
\* nor in claimTxDict any more.
C23_WatcherOutcome ==
  [][\A o \in Objs, result \in GetTxResults :
       GetTxReturn(o, result) =>
         LET c == claims'[o] IN
         /\ c.claimStatus = "confirmed" <=> result = "code0"
         /\ result = "code0" => /\ c.txHeight = TxHeight(claims[o].txHash)
                                /\ c.txHeight # 0
                                /\ c.txFee = cwGasAmount
         /\ result = "rejected" => /\ c.claimStatus = "failed"
                                   /\ C23_NamesTransactionFailed(c.txError)
         /\ c.claimStatus \in Terminal
         /\ \A h \in DOMAIN pendingTxQueue' : pendingTxQueue'[h] # o
         /\ \A s \in Sessions : claimTxDict'[s] # o]_vars

\* C23 witness: one watcher has confirmed its claim, another has failed its
\* claim on a rejected transaction, and neither claim is in a map any more.
C23_Witness ==
  \E o1, o2 \in Objs :
    /\ claims[o1].claimStatus = "confirmed"
    /\ claims[o1].txHeight # 0
    /\ claims[o1].txFee = cwGasAmount
    /\ claims[o2].claimStatus = "failed"
    /\ C23_NamesTransactionFailed(claims[o2].txError)
    /\ \A s \in Sessions : claimTxDict[s] = 0
    /\ pendingTxQueue = EmptyMap

\* C24: a sendTokens(recipient, amount) call that succeeds lowers balance by
\* amount, and nativeBalance by cwGasAmount for a contract token and by
\* amount + cwGasAmount for a native token.
C24_SendDeltas ==
  [][SendTokensDone(TRUE) =>
       /\ walletState'.balance = walletState.balance - txCall.amount
       /\ ~cwIsNativeToken =>
            walletState'.nativeBalance = walletState.nativeBalance - cwGasAmount
       /\ cwIsNativeToken =>
            walletState'.nativeBalance =
              walletState.nativeBalance - (txCall.amount + cwGasAmount)]_vars

\* C24 witness: a native token has been sent: the balance loaded was 3 on both
\* sides, the amount cwMaxAmount, and the gas has come off the native side.
C24_Witness ==
  /\ cwIsNativeToken
  /\ txResult = "sent"
  /\ walletState.sequence = 1
  /\ walletState.balance = 3 - cwMaxAmount
  /\ walletState.nativeBalance = 3 - cwMaxAmount - cwGasAmount

\* C25: an executeContract call that succeeds raises sequence by 1, lowers
\* nativeBalance by fee.amount[0].amount and leaves balance and ready alone;
\* balance changes only when sendTokens succeeds or a loadWalletState
\* completes.
C25_ExecuteDeltas ==
  [][/\ ExecuteContractDone(TRUE) =>
          /\ walletState'.sequence = walletState.sequence + 1
          /\ walletState'.nativeBalance = walletState.nativeBalance - txCall.amount
          /\ walletState'.balance = walletState.balance
          /\ walletState'.ready = walletState.ready
     /\ walletState'.balance # walletState.balance =>
          \/ SendTokensDone(TRUE)
          \/ \E ok \in BOOLEAN, balance \in ChainTokenBalances,
                native \in ChainNativeBalances : StartClientLoad(ok, balance, native)]_vars

\* C25 witness: a contract was executed with the larger fee on a wallet loaded
\* with a balance of 5 tokens, and the 5 tokens are still there.
C25_Witness ==
  /\ txResult = "executed"
  /\ walletState.ready
  /\ walletState.sequence = 1
  /\ walletState.balance = 5
  /\ walletState.nativeBalance = 3 - cwMaxAmount

\* C26: sendTokens and executeContract called while ready is false throw
\* "Wallet not ready" and hand nothing to the chain; and a call that fails,
\* for that reason or because the chain refused it, leaves the WalletState as
\* it was.
C26_FailedCallsChangeNothing ==
  [][/\ ~walletState.ready =>
          \A amount \in TxAmounts :
            (SendTokens(amount) \/ ExecuteContract(amount)) =>
               /\ txResult' = "Wallet not ready"
               /\ txCall' = NoTxCall
               /\ walletState' = walletState
               /\ chainSeq' = chainSeq
     /\ (SendTokensDone(FALSE) \/ ExecuteContractDone(FALSE)) =>
          /\ walletState' = walletState
          /\ chainSeq' = chainSeq]_vars

\* C26 witness: after a sendTokens call on a ready wallet failed on the chain,
\* the WalletState is the one that was loaded.
C26_Witness ==
  /\ txResult = "Failed to send tokens"
  /\ walletState = [ready |-> TRUE, sequence |-> 0, balance |-> 5, nativeBalance |-> 3]
  /\ txCall = NoTxCall

\* C27: when an attempt of startClient ends without a wallet that is ready,
\* whichever of its steps failed, its retry is scheduled (so that the wallet
\* gets ready once the chain can be reached, with no one else loading it).
C27_RetryUntilReady ==
  [][(startPc \in {"wallet", "signing", "query", "load"}
        /\ startPc' \notin {"wallet", "signing", "query", "load"}
        /\ ~walletState'.ready)
       => startPc' = "retry"]_vars

\* C28: at most one processQueue run is under way: a claim is PROCESSING only
\* while the one run is suspended in sendTokens for it, so no second run has
\* taken a claim from the queue meanwhile; and queueProcessing is set only
\* while that run is suspended, so the firing after its end runs again.
C28_TickSingleFlight ==
  LET sending == {o \in Objs : claims[o].claimStatus = "processing"} IN
  /\ Cardinality(sending) <= 1
  /\ queueProcessing <=> sending # {}
  /\ queueProcessing => sending = {tickClaim}

\* C28 witness: a run is suspended in sendTokens while a claim waits in the
\* queue that a second run could take: pendingTxQueue has room and the wallet
\* has gas.
C28_Witness ==
  /\ queueProcessing
  /\ claimTxQueue # <<>>
  /\ Cardinality(DOMAIN pendingTxQueue) < cwMaxPending
  /\ WalletGood

\* C29: while a processWalletRefill invocation has not completed, no other
\* evaluation starts (no attempt is stamped or logged, so no second
\* transaction is issued); a call made when none is under way and the
\* cooldowns are over starts one.
C29_RefillSingleFlight ==
  [][/\ refillPc # "idle" =>
          /\ Len(refillLog') = Len(refillLog)
          /\ lastRefillTry' = lastRefillTry
     /\ (refillPc = "idle" /\ ProcessWalletRefill) =>
          /\ Len(refillLog') = Len(refillLog) + 1
          /\ lastRefillTry' = clock]_vars

\* C29 witness: an invocation is still waiting for its executeContract call
\* when the cooldowns would let another call through, and none has started.
C29_Witness ==
  /\ refillPc = "execute"
  /\ Len(refillLog) = 1
  /\ RefillCooldownsPassed(clock, lastRefillTry, lastRefillTime)

\* C30: lastRefillTime changes only when executeContract has returned a
\* transaction (whose receipt is there and good at once), and loadWalletState
\* is what follows; an attempt that ends in any other way leaves lastRefillTime
\* alone; and every attempt ends with isRefilling false.
C30_SuccessTime ==
  [][/\ lastRefillTime' # lastRefillTime =>
          ExecuteContractReturn(TRUE) /\ refillPc' = "load"
     /\ (refillPc = "load" /\ refillPc' # "load") =>
          \E ok \in BOOLEAN, balance \in ChainTokenBalances,
             native \in ChainNativeBalances : RefillLoadReturn(ok, balance, native)
     /\ refillPc' = "idle" => ~isRefilling'
     /\ (refillPc # "load" /\ refillPc' = "idle") => lastRefillTime' = lastRefillTime]_vars

\* C30 witness: a refill went through, and a later attempt whose
\* executeContract call failed has ended: lastRefillTime is still the time of
\* the first, and isRefilling is false.
C30_Witness ==
  /\ Len(refillLog) = 2
  /\ refillLog[1].success # 0
  /\ refillLog[2].call.msg # "none"
  /\ refillLog[2].success = 0
  /\ refillPc = "idle"
  /\ ~isRefilling
  /\ lastRefillTime = refillLog[1].success

\* The clients of a list that an update with data does not close.
C31_Survivors(ac, data) ==
  SelectSeq(ac, LAMBDA o : ~(data[2] >= claims[o].claimIdx))

\* C31: a processQueue run that ends with a broadcast replaces the hub's last
\* notification and sends the update once to every client that is in
\* activeClients when the broadcast starts, also when the update closes some
\* of them on the way, and to no one else; afterwards activeClients holds the
\* clients the update did not close, in their order, so that a closed client
\* gets no later update and no other client misses one.
C31_BroadcastServesAll ==
  [][((ProcessQueue \/ \E ok \in BOOLEAN : SendTokensReturn(ok)) /\ ~queueProcessing')
       => LET data == <<lastProcessedClaimTxIdx', lastConfirmedClaimTxIdx>>
              served == {activeClients[i] : i \in DOMAIN activeClients}
          IN /\ hubLastNotificationData' = data
             /\ \A o \in Objs :
                  clientUpdates'[o] =
                    IF o \in served /\ clientUpdates[o] < MaxUpdates
                    THEN clientUpdates[o] + 1 ELSE clientUpdates[o]
             /\ activeClients' = C31_Survivors(activeClients, data)
             /\ \A i \in DOMAIN activeClients' : clientState'[activeClients'[i]] = "active"
             /\ \A o \in served :
                  clientState'[o] = "active" => \E i \in DOMAIN activeClients' : activeClients'[i] = o]_vars

\* C31 witness: a broadcast has closed the client that subscribed first and
\* has served the one behind it, which is still subscribed.
C31_Witness ==
  \E o1, o2 \in Objs :
    /\ clientState[o1] = "claim confirmed"
    /\ clientUpdates[o1] > 0
    /\ clientUpdates[o2] > 0
    /\ activeClients = <<o2>>
    /\ claims[o1].claimIdx < claims[o2].claimIdx

\* C32: once dispose has returned, and as long as the manager is not
\* initialized again, no claim leaves claimTxQueue and the hub's last
\* notification stays reset, also when a processQueue run was suspended in
\* sendTokens at the time of the dispose.
C32_DisposedStaysQuiet ==
  [][(~initialized /\ ~initialized')
       => /\ Len(claimTxQueue') >= Len(claimTxQueue)
          /\ SubSeq(claimTxQueue', 1, Len(claimTxQueue)) = claimTxQueue
          /\ hubLastNotificationData' = <<>>]_vars

\* C33: over its whole life, restarts of the process included, the chain
\* accepts at most one transfer for a claim.
C33_AtMostOneBroadcast == \A o \in Objs : sends[o] <= 1

\* C34: the balances the wallet manager tracks are never negative: no
\* transfer or contract call is debited with more than the tracked balance.
C34_BalancesNotNegative ==
  /\ walletState.balance >= 0
  /\ walletState.nativeBalance >= 0

Fairness ==
  /\ WF_vars(ProcessQueue)
  /\ WF_vars(\E ok \in BOOLEAN : SendTokensReturn(ok))
  /\ \A o \in Objs : WF_vars(\E result \in GetTxResults : GetTxReturn(o, result))

LiveSpec == Init /\ [][Next]_vars /\ Fairness

====
